---- MODULE Spec2Model ----
(***************************************************************************)
(* hidmon: low-level keyboard / mouse hook monitoring.                     *)
(*                                                                         *)
(* Two parts of the crate are modelled.                                    *)
(*   - src/src/hid_monitor.rs: HidMonitor (one HHOOK field per HidType),   *)
(*     the process-wide GLOBAL_KEYBD_CALLBACK / GLOBAL_MOUSE_CALLBACK      *)
(*     slots and the hook procedures KeyboardProc / MouseProc that read    *)
(*     them. Specification Spec.                                           *)
(*   - src/src/globals.rs and src/src/windows.rs: the callback maps        *)
(*     GLOBAL_KEYBD_CALLBACKS / GLOBAL_MOUSE_CALLBACKS, the GlobalCallback *)
(*     handle and the hook procedures LowLevelKeyboardProc /               *)
(*     LowLevelMouseProc that iterate the maps. Specification SpecRegistry.*)
(* The two parts share no state in the source: HidMonitor never touches    *)
(* the maps and the LowLevel procedures never read the single slots.       *)
(***************************************************************************)
EXTENDS Integers, Sequences, FiniteSets, Bags, TLC

\* ------------------------------------------------------------------ bounds
NumMonitors == 2
NumCallbacks == 2
NumKeys == 2
MaxHandles == 2
MaxDraws == 2
MaxKnown == 2

\* --------------------------------------------------------------- constants
\* HHOOK::default(): the null handle, for which is_invalid() holds.
INVALID == 0

HidTypes == {"Keyboard", "Mouse"}
Monitors == 1..NumMonitors
Callbacks == 1..NumCallbacks
\* Key = u64, cut down to NumKeys values.
Keys == 1..NumKeys
\* "No key" in the record of a hook procedure run.
NoKey == 0
\* The HHOOK the OS hands out for a hook of a type. At most one hook of a
\* type is installed at a time, so one handle value per type tells every
\* installed hook from every other and from the null handle.
HookHandle(t) == IF t = "Keyboard" THEN 1 ELSE 2
\* "No monitor" in the history variable disabled.
Nobody == <<0, "none">>
\* <<WPARAM, LPARAM>> of an event: opaque words handed through. The two
\* words of a pair differ, so that swapping them shows.
Params == {<<0, 1>>, <<1, 0>>}
\* nCode: negative codes are "pass on without processing".
Codes == {-1, 0}
\* LRESULT values CallNextHookEx may return.
LResults == {0, 1}
\* Option::None of a callback slot.
None == [owner |-> 0, cb |-> 0]
\* A callback as registered: the function registered and the monitor whose
\* enable registered it (the owner is bookkeeping of the model only).
Registrations == [owner : Monitors, cb : Callbacks]
\* What a hook procedure hands back to the OS when it does not return.
NoReturn == "no-return"

VARIABLES
    keybd_hook,             \* HidMonitor.keybd_hook, per monitor
    mouse_hook,             \* HidMonitor.mouse_hook, per monitor
    alive,                  \* the monitors that are constructed and not dropped
    GLOBAL_KEYBD_CALLBACK,  \* inner::GLOBAL_KEYBD_CALLBACK
    GLOBAL_MOUSE_CALLBACK,  \* inner::GLOBAL_MOUSE_CALLBACK
    os_hooks,               \* the OS: per hook type, the installed hook handle
    crashed,                \* the process has aborted
    disabled,               \* history: <<m, t>> of the latest successful disable, until
                            \* m enables t again or is dropped
    last                    \* history: the operation that ran last

VARIABLES
    GLOBAL_KEYBD_CALLBACKS, \* globals::GLOBAL_KEYBD_CALLBACKS: the map Key -> callback
    GLOBAL_MOUSE_CALLBACKS, \* globals::GLOBAL_MOUSE_CALLBACKS
    handles,                \* the GlobalCallback values that exist, a bag of
                            \* [hid_type, key]
    map_lock,               \* per HidType, the Mutex around the map
    cb_lock,                \* per callback, the Mutex around the callback object
    run                     \* per HidType, the LowLevel hook procedure call in progress

monitor_vars == <<keybd_hook, mouse_hook, alive, GLOBAL_KEYBD_CALLBACK,
                  GLOBAL_MOUSE_CALLBACK, os_hooks, disabled, last>>

registry_vars == <<GLOBAL_KEYBD_CALLBACKS, GLOBAL_MOUSE_CALLBACKS, handles, map_lock,
                   cb_lock, run>>

\* The lifecycle of the HidMonitor that main.rs uses (add_callback,
\* enable(type)); its code is not among the source files.
VARIABLES
    known,                  \* per monitor and type, the list of known callbacks
    token,                  \* per monitor and type, the OS hook handle (INVALID:
                            \* not installed)
    held                    \* per monitor and type, the keys of the GlobalCallback
                            \* values the monitor holds

lifecycle_vars == <<known, token, held>>

vars == <<monitor_vars, registry_vars, lifecycle_vars, crashed>>

\* ----------------------------------------------------------- hid_monitor.rs
\* The hook field of monitor m for a HidType (the match of enable / disable).
HookOf(m, t) == IF t = "Keyboard" THEN keybd_hook[m] ELSE mouse_hook[m]

\* The callback slot of a HidType (the match of set_global_callback).
GlobalCallbackOf(t) ==
    IF t = "Keyboard" THEN GLOBAL_KEYBD_CALLBACK ELSE GLOBAL_MOUSE_CALLBACK

\* The error of an OS call that fails for a reason of the OS's own.
OsFailure == "ERROR_OS_FAILURE"
\* What the OS may answer to an install it does not refuse: the null handle
\* (a failure), or a handle that is not in use.
InstallAnswers(t) ==
    IF os_hooks[t] # INVALID THEN {INVALID} ELSE {INVALID, HookHandle(t)}

\* SetWindowsHookExW as the crate documents it: a second hook of a type that
\* is already hooked in this process is refused; any install may fail.
SetWindowsHookExW(os, t, answer) ==
    IF os[t] # INVALID
    THEN [res |-> "ERROR_ALREADY_INSTALLED", hook |-> INVALID, os |-> os]
    ELSE IF answer = INVALID
    THEN [res |-> OsFailure, hook |-> INVALID, os |-> os]
    ELSE [res |-> "Ok", hook |-> answer, os |-> [os EXCEPT ![t] = answer]]

\* UnhookWindowsHookEx: a handle that is not an installed hook is refused;
\* removing an installed hook may fail, and then the hook stays installed.
UnhookWindowsHookEx(os, h, osfail) ==
    IF h = INVALID \/ \A t \in HidTypes : os[t] # h
    THEN [res |-> "ERROR_INVALID_HOOK_HANDLE", os |-> os]
    ELSE IF osfail
    THEN [res |-> OsFailure, os |-> os]
    ELSE [res |-> "Ok", os |-> [t \in HidTypes |-> IF os[t] = h THEN INVALID ELSE os[t]]]

\* inner::set_global_callback: Option::replace on the slot of the type.
\* slots is <<keyboard slot, mouse slot>>.
set_global_callback(slots, t, callback) ==
    IF t = "Keyboard" THEN <<callback, slots[2]>> ELSE <<slots[1], callback>>

\* A bug hook could have: the slot is written before the OS is asked.
hook_sets_callback_first(os, slots, t, callback, answer) ==
    LET r == SetWindowsHookExW(os, t, answer)
    IN  [res |-> r.res, os_res |-> r.res, hook |-> r.hook, os |-> r.os,
         slots |-> set_global_callback(slots, t, callback), os_install |-> 1]

\* HidMonitor::hook: install, return the error on failure ("?"), and only
\* then set the global callback.
hook(os, slots, t, callback, answer) ==
    LET r == SetWindowsHookExW(os, t, answer)
    IN  IF r.res # "Ok"
        THEN [res |-> r.res, os_res |-> r.res, hook |-> INVALID, os |-> r.os,
              slots |-> slots, os_install |-> 1]
        ELSE [res |-> "Ok", os_res |-> r.res, hook |-> r.hook, os |-> r.os,
              slots |-> set_global_callback(slots, t, callback), os_install |-> 1]

\* A bug unhook could have: it reports success without asking the OS.
unhook_skips_os(os, h, osfail) ==
    [res |-> "Ok", os_res |-> "Ok", os |-> os, os_uninstall |-> 0]

\* HidMonitor::unhook: one UnhookWindowsHookEx call, its result returned.
unhook(os, h, osfail) ==
    LET r == UnhookWindowsHookEx(os, h, osfail)
    IN  [res |-> r.res, os_res |-> r.res, os |-> r.os, os_uninstall |-> 1]

\* HidMonitor::enable(type, callback)
enable(m, t, callback, answer) ==
    /\ ~crashed
    /\ alive[m]
    /\ LET r == hook(os_hooks, <<GLOBAL_KEYBD_CALLBACK, GLOBAL_MOUSE_CALLBACK>>, t,
                     [owner |-> m, cb |-> callback], answer)
       IN  /\ os_hooks' = r.os
           /\ GLOBAL_KEYBD_CALLBACK' = r.slots[1]
           /\ GLOBAL_MOUSE_CALLBACK' = r.slots[2]
           /\ keybd_hook' = IF r.res = "Ok" /\ t = "Keyboard"
                            THEN [keybd_hook EXCEPT ![m] = r.hook] ELSE keybd_hook
           /\ mouse_hook' = IF r.res = "Ok" /\ t = "Mouse"
                            THEN [mouse_hook EXCEPT ![m] = r.hook] ELSE mouse_hook
           /\ disabled' = IF r.res = "Ok" /\ disabled = <<m, t>> THEN Nobody ELSE disabled
           /\ last' = [op |-> "enable", m |-> m, t |-> t,
                       res |-> r.res, os_res |-> r.os_res, os_install |-> r.os_install]
    /\ UNCHANGED <<alive, crashed, registry_vars, lifecycle_vars>>

\* A disable that resets the hook handle whatever the result of unhook.
disable_resets_on_error(m, t, osfail) ==
    /\ ~crashed
    /\ alive[m]
    /\ LET r == unhook(os_hooks, HookOf(m, t), osfail)
       IN  /\ os_hooks' = r.os
           /\ keybd_hook' = IF t = "Keyboard"
                            THEN [keybd_hook EXCEPT ![m] = INVALID] ELSE keybd_hook
           /\ mouse_hook' = IF t = "Mouse"
                            THEN [mouse_hook EXCEPT ![m] = INVALID] ELSE mouse_hook
           /\ disabled' = IF r.res = "Ok" THEN <<m, t>> ELSE disabled
           /\ last' = [op |-> "disable", m |-> m, t |-> t, res |-> r.res,
                       os_res |-> r.os_res, os_uninstall |-> r.os_uninstall]
    /\ UNCHANGED <<alive, crashed, GLOBAL_KEYBD_CALLBACK, GLOBAL_MOUSE_CALLBACK,
                   registry_vars, lifecycle_vars>>

\* HidMonitor::disable(type)
disable(m, t, osfail) ==
    /\ ~crashed
    /\ alive[m]
    /\ LET r == unhook(os_hooks, HookOf(m, t), osfail)
       IN  /\ os_hooks' = r.os
           /\ keybd_hook' = IF r.res = "Ok" /\ t = "Keyboard"
                            THEN [keybd_hook EXCEPT ![m] = INVALID] ELSE keybd_hook
           /\ mouse_hook' = IF r.res = "Ok" /\ t = "Mouse"
                            THEN [mouse_hook EXCEPT ![m] = INVALID] ELSE mouse_hook
           /\ disabled' = IF r.res = "Ok" THEN <<m, t>> ELSE disabled
           /\ last' = [op |-> "disable", m |-> m, t |-> t, res |-> r.res,
                       os_res |-> r.os_res, os_uninstall |-> r.os_uninstall]
    /\ UNCHANGED <<alive, crashed, GLOBAL_KEYBD_CALLBACK, GLOBAL_MOUSE_CALLBACK,
                   registry_vars, lifecycle_vars>>

\* A destructor that gives up at the first failure (unhook(..)? in place of
\* let _ = unhook(..)): after a failed keyboard unhook the mouse hook is not
\* unhooked, and the error leaves the destructor.
Drop_stops_at_error(m, kfail, mfail) ==
    /\ ~crashed
    /\ alive[m]
    /\ LET k   == IF keybd_hook[m] # INVALID
                  THEN unhook(os_hooks, keybd_hook[m], kfail)
                  ELSE [res |-> "skipped", os_res |-> "skipped", os |-> os_hooks,
                        os_uninstall |-> 0]
           ms  == IF mouse_hook[m] # INVALID /\ k.res \in {"Ok", "skipped"}
                  THEN unhook(k.os, mouse_hook[m], mfail)
                  ELSE [res |-> "skipped", os_res |-> "skipped", os |-> k.os,
                        os_uninstall |-> 0]
       IN  /\ os_hooks' = ms.os
           /\ last' = [op |-> "drop", m |-> m,
                       res |-> IF k.res \in {"Ok", "skipped"} THEN "Ok" ELSE k.res,
                       keybd |-> [hook |-> keybd_hook[m], os_res |-> k.os_res,
                                  os_uninstall |-> k.os_uninstall],
                       mouse |-> [hook |-> mouse_hook[m], os_res |-> ms.os_res,
                                  os_uninstall |-> ms.os_uninstall]]
    /\ alive' = [alive EXCEPT ![m] = FALSE]
    /\ disabled' = IF disabled[1] = m THEN Nobody ELSE disabled
    /\ keybd_hook' = [keybd_hook EXCEPT ![m] = INVALID]
    /\ mouse_hook' = [mouse_hook EXCEPT ![m] = INVALID]
    /\ UNCHANGED <<crashed, GLOBAL_KEYBD_CALLBACK, GLOBAL_MOUSE_CALLBACK, registry_vars, lifecycle_vars>>

\* impl Drop for HidMonitor: unhook each hook that is not invalid, keyboard
\* first, and discard the results. The monitor is gone afterwards; its
\* fields are given the default value in the model.
Drop(m, kfail, mfail) ==
    /\ ~crashed
    /\ alive[m]
    /\ LET k   == IF keybd_hook[m] # INVALID
                  THEN unhook(os_hooks, keybd_hook[m], kfail)
                  ELSE [res |-> "skipped", os_res |-> "skipped", os |-> os_hooks,
                        os_uninstall |-> 0]
           ms  == IF mouse_hook[m] # INVALID
                  THEN unhook(k.os, mouse_hook[m], mfail)
                  ELSE [res |-> "skipped", os_res |-> "skipped", os |-> k.os,
                        os_uninstall |-> 0]
       IN  /\ os_hooks' = ms.os
           /\ last' = [op |-> "drop", m |-> m, res |-> "Ok",
                       keybd |-> [hook |-> keybd_hook[m], os_res |-> k.os_res,
                                  os_uninstall |-> k.os_uninstall],
                       mouse |-> [hook |-> mouse_hook[m], os_res |-> ms.os_res,
                                  os_uninstall |-> ms.os_uninstall]]
    /\ alive' = [alive EXCEPT ![m] = FALSE]
    /\ disabled' = IF disabled[1] = m THEN Nobody ELSE disabled
    /\ keybd_hook' = [keybd_hook EXCEPT ![m] = INVALID]
    /\ mouse_hook' = [mouse_hook EXCEPT ![m] = INVALID]
    /\ UNCHANGED <<crashed, GLOBAL_KEYBD_CALLBACK, GLOBAL_MOUSE_CALLBACK, registry_vars, lifecycle_vars>>

\* The body shared by inner::KeyboardProc and inner::MouseProc, which differ
\* only in the slot they read: lock the slot and copy the callback out, call
\* it if there is one, then CallNextHookEx with the arguments received and
\* return its result. A callback that panics unwinds out of the
\* extern "system" function: nothing after the call runs.
InnerProc(slot, nCode, wParam, lParam, fault, next) ==
    LET callback == slot
        called   == IF callback # None
                    THEN <<[reg |-> callback, nCode |-> nCode, wParam |-> wParam,
                            lParam |-> lParam]>>
                    ELSE <<>>
    IN  IF callback # None /\ fault # "none"
        THEN [locked |-> TRUE, invoked |-> called, forwarded |-> <<>>,
              ret |-> NoReturn, panicked |-> TRUE]
        ELSE [locked |-> TRUE, invoked |-> called,
              forwarded |-> <<[nCode |-> nCode, wParam |-> wParam, lParam |-> lParam,
                              result |-> next]>>,
              ret |-> next, panicked |-> FALSE]

\* What a panic that leaves an extern "system" function does to the process:
\* the build aborts it, or (undefined behaviour of older toolchains) the
\* unwinding is swallowed by the caller and the process goes on.
\* "none": the callback returns.
Faults == {"none", "abort", "unwind"}

\* The process aborts: its monitors and callback slots are gone with its
\* memory, and the OS removes the hooks of a process that has ended.
ProcessAborts ==
    /\ crashed' = TRUE
    /\ keybd_hook' = [m \in Monitors |-> INVALID]
    /\ mouse_hook' = [m \in Monitors |-> INVALID]
    /\ alive' = [m \in Monitors |-> FALSE]
    /\ GLOBAL_KEYBD_CALLBACK' = None
    /\ GLOBAL_MOUSE_CALLBACK' = None
    /\ os_hooks' = [t \in HidTypes |-> INVALID]
    /\ disabled' = Nobody

\* inner::KeyboardProc, called by the OS while a keyboard hook is installed.
KeyboardProc(nCode, wParam, lParam, fault, next) ==
    /\ ~crashed
    /\ os_hooks["Keyboard"] # INVALID
    /\ LET r == InnerProc(GLOBAL_KEYBD_CALLBACK, nCode, wParam, lParam, fault, next)
       IN  /\ last' = [op |-> "proc", proc |-> "KeyboardProc", t |-> "Keyboard",
                       nCode |-> nCode, wParam |-> wParam, lParam |-> lParam,
                       locked |-> r.locked, invoked |-> r.invoked,
                       forwarded |-> r.forwarded, ret |-> r.ret, panicked |-> r.panicked]
           /\ IF r.panicked /\ fault = "abort"
              THEN ProcessAborts
              ELSE UNCHANGED <<keybd_hook, mouse_hook, alive, GLOBAL_KEYBD_CALLBACK,
                               GLOBAL_MOUSE_CALLBACK, os_hooks, crashed, disabled>>
    /\ UNCHANGED <<registry_vars, lifecycle_vars>>

\* inner::MouseProc, called by the OS while a mouse hook is installed.
MouseProc(nCode, wParam, lParam, fault, next) ==
    /\ ~crashed
    /\ os_hooks["Mouse"] # INVALID
    /\ LET r == InnerProc(GLOBAL_MOUSE_CALLBACK, nCode, wParam, lParam, fault, next)
       IN  /\ last' = [op |-> "proc", proc |-> "MouseProc", t |-> "Mouse",
                       nCode |-> nCode, wParam |-> wParam, lParam |-> lParam,
                       locked |-> r.locked, invoked |-> r.invoked,
                       forwarded |-> r.forwarded, ret |-> r.ret, panicked |-> r.panicked]
           /\ IF r.panicked /\ fault = "abort"
              THEN ProcessAborts
              ELSE UNCHANGED <<keybd_hook, mouse_hook, alive, GLOBAL_KEYBD_CALLBACK,
                               GLOBAL_MOUSE_CALLBACK, os_hooks, crashed, disabled>>
    /\ UNCHANGED <<registry_vars, lifecycle_vars>>

\* ------------------------------------------------- globals.rs / windows.rs
\* The map of a HidType (the match of GlobalCallback::new / drop).
MapOf(t) == IF t = "Keyboard" THEN GLOBAL_KEYBD_CALLBACKS ELSE GLOBAL_MOUSE_CALLBACKS

\* HashMap::new()
EmptyMap == [k \in {} |-> 0]

\* GlobalCallback::new without the test for a vacant entry: the first key
\* drawn is used.
FirstDrawn(map, draws) == draws[1]

\* The loop of GlobalCallback::new over the keys the generator draws: the
\* first key drawn whose entry is vacant.
FirstVacant(map, draws) ==
    draws[CHOOSE i \in 1..Len(draws) :
             /\ draws[i] \notin DOMAIN map
             /\ \A j \in 1..(i - 1) : draws[j] \in DOMAIN map]

\* An insert that is lost: the map stays as it is.
MapInsert_lost(map, key, callback) == map

\* VacantEntry::insert
MapInsert(map, key, callback) ==
    [k \in DOMAIN map \cup {key} |-> IF k = key THEN callback ELSE map[k]]

\* The body of Drop for GlobalCallback: remove the key if the map has it.
MapRemove(map, key) ==
    IF key \in DOMAIN map THEN [k \in DOMAIN map \ {key} |-> map[k]] ELSE map

\* GlobalCallback::new that inserts without taking the lock of the map.
GlobalCallback_new_unlocked(hid_type, callback, draws) ==
    /\ ~crashed
    /\ BagCardinality(handles) < MaxHandles
    /\ \E i \in 1..Len(draws) : draws[i] \notin DOMAIN MapOf(hid_type)
    /\ LET key == FirstVacant(MapOf(hid_type), draws)
           map == MapInsert(MapOf(hid_type), key, callback)
       IN  /\ GLOBAL_KEYBD_CALLBACKS' =
                  IF hid_type = "Keyboard" THEN map ELSE GLOBAL_KEYBD_CALLBACKS
           /\ GLOBAL_MOUSE_CALLBACKS' =
                  IF hid_type = "Mouse" THEN map ELSE GLOBAL_MOUSE_CALLBACKS
           /\ handles' = handles (+) SetToBag({[hid_type |-> hid_type, key |-> key]})
    /\ UNCHANGED <<map_lock, cb_lock, run, crashed, monitor_vars, lifecycle_vars>>

\* GlobalCallback::new(hid_type, callback): lock the map of the type, draw
\* keys until one is vacant, insert there, and return the handle. The lock is
\* taken and released within the call; the call waits while a hook procedure
\* holds it. (On a poisoned lock the unwrap panics before anything is done.)
GlobalCallback_new(hid_type, callback, draws) ==
    /\ ~crashed
    /\ map_lock[hid_type] = "free"
    /\ BagCardinality(handles) < MaxHandles
    /\ \E i \in 1..Len(draws) : draws[i] \notin DOMAIN MapOf(hid_type)
    /\ LET key == FirstVacant(MapOf(hid_type), draws)
           map == MapInsert(MapOf(hid_type), key, callback)
       IN  /\ GLOBAL_KEYBD_CALLBACKS' =
                  IF hid_type = "Keyboard" THEN map ELSE GLOBAL_KEYBD_CALLBACKS
           /\ GLOBAL_MOUSE_CALLBACKS' =
                  IF hid_type = "Mouse" THEN map ELSE GLOBAL_MOUSE_CALLBACKS
           /\ handles' = handles (+) SetToBag({[hid_type |-> hid_type, key |-> key]})
    /\ UNCHANGED <<map_lock, cb_lock, run, crashed, monitor_vars, lifecycle_vars>>

\* drop without the contains_key test: remove(&self.key).expect(..) panics
\* when there is no entry to remove.
drop_without_contains_key(lock, map, key) ==
    IF lock = "poisoned"
    THEN [map |-> map, panicked |-> TRUE]
    ELSE [map |-> MapRemove(map, key), panicked |-> key \notin DOMAIN map]

\* fn drop of GlobalCallback on the map of its type, whose lock is not held:
\* lock().unwrap() panics on a poisoned lock and the map stays as it is;
\* otherwise the key is removed if the map contains it, and the expect on the
\* removal is reached only then.
drop(lock, map, key) ==
    IF lock = "poisoned"
    THEN [map |-> map, panicked |-> TRUE]
    ELSE [map |-> MapRemove(map, key), panicked |-> FALSE]

\* impl Drop for GlobalCallback: lock the map of the handle's type and remove
\* the handle's key if it is there. On a poisoned lock the unwrap panics and
\* the entry stays; the handle is gone either way.
GlobalCallback_drop(h) ==
    /\ ~crashed
    /\ BagIn(h, handles)
    /\ map_lock[h.hid_type] # "held"
    /\ LET map == drop(map_lock[h.hid_type], MapOf(h.hid_type), h.key).map
       IN  /\ GLOBAL_KEYBD_CALLBACKS' =
                  IF h.hid_type = "Keyboard" THEN map ELSE GLOBAL_KEYBD_CALLBACKS
           /\ GLOBAL_MOUSE_CALLBACKS' =
                  IF h.hid_type = "Mouse" THEN map ELSE GLOBAL_MOUSE_CALLBACKS
    /\ handles' = handles (-) SetToBag({h})
    /\ UNCHANGED <<map_lock, cb_lock, run, crashed, monitor_vars, lifecycle_vars>>

\* No hook procedure call in progress.
IdleRun ==
    [pc |-> "idle", nCode |-> 0, wParam |-> 0, lParam |-> 0, locked |-> FALSE,
     todo |-> {}, cur |-> NoKey, invoked |-> <<>>, forwarded |-> <<>>,
     ret |-> NoReturn, panicked |-> FALSE]

\* CallNextHookEx(None, ncode, wparam, lparam), answered by the OS with next.
CallNextHookEx(nCode, wParam, lParam, next) ==
    [nCode |-> nCode, wParam |-> wParam, lParam |-> lParam, result |-> next]

\* A panic leaves the hook procedure of type t. Unwinding drops the guards
\* the procedure holds, which poisons their mutexes: the map's when it was
\* locked, and that of the callback being called. Nothing after the panic
\* runs; calls are the callbacks called up to it. The build aborts the process there; where it does not (undefined
\* behaviour), the procedure is left without a result.
ProcPanics(t, fault, poisoned_cbs, calls) ==
    LET r == [run[t] EXCEPT !.pc = "done", !.panicked = TRUE, !.ret = NoReturn,
                            !.invoked = calls]
    IN  IF fault = "abort"
        THEN /\ crashed' = TRUE
             /\ run' = [u \in HidTypes |-> IF u = t THEN r ELSE IdleRun]
             /\ GLOBAL_KEYBD_CALLBACKS' = EmptyMap
             /\ GLOBAL_MOUSE_CALLBACKS' = EmptyMap
             /\ handles' = EmptyBag
             /\ map_lock' = [u \in HidTypes |-> "free"]
             /\ cb_lock' = [c \in Callbacks |-> "free"]
        ELSE /\ run' = [run EXCEPT ![t] = r]
             /\ map_lock' = [map_lock EXCEPT ![t] = "poisoned"]
             /\ cb_lock' = [c \in Callbacks |->
                              IF c \in poisoned_cbs THEN "poisoned" ELSE cb_lock[c]]
             /\ UNCHANGED <<GLOBAL_KEYBD_CALLBACKS, GLOBAL_MOUSE_CALLBACKS, handles,
                            crashed>>

\* LowLevelKeyboardProc / LowLevelMouseProc, ncode < 0: return
\* CallNextHookEx(..) at once.
ProcPassThrough(t, nCode, wParam, lParam, next) ==
    /\ ~crashed
    /\ run[t].pc = "idle"
    /\ nCode < 0
    /\ run' = [run EXCEPT ![t] =
                  [IdleRun EXCEPT !.pc = "done", !.nCode = nCode, !.wParam = wParam,
                                  !.lParam = lParam,
                                  !.forwarded = <<CallNextHookEx(nCode, wParam, lParam, next)>>,
                                  !.ret = next]]
    /\ UNCHANGED <<GLOBAL_KEYBD_CALLBACKS, GLOBAL_MOUSE_CALLBACKS, handles, map_lock,
                   cb_lock, crashed, monitor_vars, lifecycle_vars>>

\* ... ncode >= 0: lock the map of the type; the iteration is over the
\* entries the map has now.
ProcLock(t, nCode, wParam, lParam) ==
    /\ ~crashed
    /\ run[t].pc = "idle"
    /\ nCode >= 0
    /\ map_lock[t] = "free"
    /\ map_lock' = [map_lock EXCEPT ![t] = "held"]
    /\ run' = [run EXCEPT ![t] =
                  [IdleRun EXCEPT !.pc = "iterate", !.nCode = nCode, !.wParam = wParam,
                                  !.lParam = lParam, !.locked = TRUE,
                                  !.todo = DOMAIN MapOf(t)]]
    /\ UNCHANGED <<GLOBAL_KEYBD_CALLBACKS, GLOBAL_MOUSE_CALLBACKS, handles, cb_lock,
                   crashed, monitor_vars, lifecycle_vars>>

\* ... ncode >= 0 and the map's lock is poisoned: lock().unwrap() panics.
ProcLockPoisoned(t, nCode, wParam, lParam, fault) ==
    /\ ~crashed
    /\ run[t].pc = "idle"
    /\ nCode >= 0
    /\ map_lock[t] = "poisoned"
    /\ fault # "none"
    /\ LET entered == [IdleRun EXCEPT !.nCode = nCode, !.wParam = wParam,
                                      !.lParam = lParam]
           r       == [entered EXCEPT !.pc = "done", !.panicked = TRUE]
       IN  IF fault = "abort"
           THEN /\ crashed' = TRUE
                /\ run' = [u \in HidTypes |-> IF u = t THEN r ELSE IdleRun]
                /\ GLOBAL_KEYBD_CALLBACKS' = EmptyMap
                /\ GLOBAL_MOUSE_CALLBACKS' = EmptyMap
                /\ handles' = EmptyBag
                /\ map_lock' = [u \in HidTypes |-> "free"]
                /\ cb_lock' = [c \in Callbacks |-> "free"]
           ELSE /\ run' = [run EXCEPT ![t] = r]
                /\ UNCHANGED <<GLOBAL_KEYBD_CALLBACKS, GLOBAL_MOUSE_CALLBACKS, handles,
                               map_lock, cb_lock, crashed>>
    /\ UNCHANGED <<monitor_vars, lifecycle_vars>>

\* ... the loop reaches the entry of key k: entry.0.lock() takes the
\* callback's own mutex, waiting while another hook procedure holds it.
ProcEntryLock(t, k) ==
    /\ ~crashed
    /\ run[t].pc = "iterate"
    /\ k \in run[t].todo
    /\ cb_lock[MapOf(t)[k]] = "free"
    /\ cb_lock' = [cb_lock EXCEPT ![MapOf(t)[k]] = t]
    /\ run' = [run EXCEPT ![t].pc = "callback", ![t].cur = k]
    /\ UNCHANGED <<GLOBAL_KEYBD_CALLBACKS, GLOBAL_MOUSE_CALLBACKS, handles, map_lock,
                   crashed, monitor_vars, lifecycle_vars>>

\* ... the callback's mutex is poisoned: entry.0.lock().unwrap() panics.
ProcEntryPoisoned(t, k, fault) ==
    /\ ~crashed
    /\ run[t].pc = "iterate"
    /\ k \in run[t].todo
    /\ cb_lock[MapOf(t)[k]] = "poisoned"
    /\ fault # "none"
    /\ ProcPanics(t, fault, {}, run[t].invoked)
    /\ UNCHANGED <<monitor_vars, lifecycle_vars>>

\* ... callback(ncode, wparam, lparam) of the entry runs, under the
\* callback's mutex and the map's: it returns, or it panics.
ProcCallback(t, fault) ==
    /\ ~crashed
    /\ run[t].pc = "callback"
    /\ LET cb   == MapOf(t)[run[t].cur]
           call == [key |-> run[t].cur, cb |-> cb, nCode |-> run[t].nCode,
                    wParam |-> run[t].wParam, lParam |-> run[t].lParam]
       IN  IF fault = "none"
           THEN /\ run' = [run EXCEPT ![t].pc = "iterate",
                                      ![t].todo = run[t].todo \ {run[t].cur},
                                      ![t].cur = NoKey,
                                      ![t].invoked = Append(run[t].invoked, call)]
                /\ cb_lock' = [cb_lock EXCEPT ![cb] = "free"]
                /\ UNCHANGED <<GLOBAL_KEYBD_CALLBACKS, GLOBAL_MOUSE_CALLBACKS, handles,
                               map_lock, crashed>>
           ELSE ProcPanics(t, fault, {cb}, Append(run[t].invoked, call))
    /\ UNCHANGED <<monitor_vars, lifecycle_vars>>

\* A hook procedure that returns without releasing the lock of the map (the
\* guard is leaked).
ProcForward_keeps_lock(t, next) ==
    /\ ~crashed
    /\ run[t].pc = "iterate"
    /\ run[t].todo = {}
    /\ map_lock' = map_lock
    /\ run' = [run EXCEPT ![t].pc = "done",
                          ![t].forwarded =
                              <<CallNextHookEx(run[t].nCode, run[t].wParam,
                                               run[t].lParam, next)>>,
                          ![t].ret = next]
    /\ UNCHANGED <<GLOBAL_KEYBD_CALLBACKS, GLOBAL_MOUSE_CALLBACKS, handles, cb_lock,
                   crashed, monitor_vars, lifecycle_vars>>

\* ... the loop is over: drop(callback_map) releases the map's lock, then
\* CallNextHookEx, whose result is returned.
ProcForward(t, next) ==
    /\ ~crashed
    /\ run[t].pc = "iterate"
    /\ run[t].todo = {}
    /\ map_lock' = [map_lock EXCEPT ![t] = "free"]
    /\ run' = [run EXCEPT ![t].pc = "done",
                          ![t].forwarded =
                              <<CallNextHookEx(run[t].nCode, run[t].wParam,
                                               run[t].lParam, next)>>,
                          ![t].ret = next]
    /\ UNCHANGED <<GLOBAL_KEYBD_CALLBACKS, GLOBAL_MOUSE_CALLBACKS, handles, cb_lock,
                   crashed, monitor_vars, lifecycle_vars>>

\* The OS has the procedure's result; the next event of the type may come.
ProcReturn(t) ==
    /\ ~crashed
    /\ run[t].pc = "done"
    /\ run' = [run EXCEPT ![t] = IdleRun]
    /\ UNCHANGED <<GLOBAL_KEYBD_CALLBACKS, GLOBAL_MOUSE_CALLBACKS, handles, map_lock,
                   cb_lock, crashed, monitor_vars, lifecycle_vars>>

\* ------------------------------------- the lifecycle of main.rs's HidMonitor
\* GlobalCallback::new for each callback of a list in turn, each under a key
\* that is vacant when its turn comes; keys[i] is the key the i-th gets.
InsertAll(map, callbacks, keys) ==
    [k \in DOMAIN map \cup {keys[i] : i \in 1..Len(callbacks)} |->
        IF k \in DOMAIN map THEN map[k]
        ELSE callbacks[CHOOSE i \in 1..Len(callbacks) : keys[i] = k]]

\* The keys that a list of n insertions into the map can get: distinct and
\* vacant.
VacantKeys(map, n) ==
    {keys \in [1..n -> Keys] :
        /\ \A i \in 1..n : keys[i] \notin DOMAIN map
        /\ \A i, j \in 1..n : keys[i] = keys[j] => i = j}

\* The GlobalCallback values of a type with the given keys.
HandlesOf(t, keyset) == SetToBag({[hid_type |-> t, key |-> k] : k \in keyset})

\* The number of callbacks known to the monitors.
KnownCount ==
    LET n(m) == Len(known[m]["Keyboard"]) + Len(known[m]["Mouse"])
        RECURSIVE Sum(_)
        Sum(ms) == IF ms = {} THEN 0
                   ELSE LET m == CHOOSE x \in ms : TRUE IN n(m) + Sum(ms \ {m})
    IN  Sum(Monitors)

\* add_callback(type, callback): append to the known list; if the hook of
\* the type is installed, GlobalCallback::new makes the callback live at
\* once and the monitor keeps the handle. On a poisoned map lock
\* GlobalCallback::new panics and add_callback does not return; while a hook
\* procedure holds the lock, add_callback waits.
add_callback(m, t, callback, draws) ==
    /\ ~crashed
    /\ KnownCount < MaxKnown
    /\ known' = [known EXCEPT ![m][t] = Append(@, callback)]
    /\ IF token[m][t] # INVALID /\ map_lock[t] # "poisoned"
       THEN /\ map_lock[t] = "free"
            /\ BagCardinality(handles) < MaxHandles
            /\ \E i \in 1..Len(draws) : draws[i] \notin DOMAIN MapOf(t)
            /\ LET key == FirstVacant(MapOf(t), draws)
                   map == MapInsert(MapOf(t), key, callback)
               IN  /\ GLOBAL_KEYBD_CALLBACKS' =
                          IF t = "Keyboard" THEN map ELSE GLOBAL_KEYBD_CALLBACKS
                   /\ GLOBAL_MOUSE_CALLBACKS' =
                          IF t = "Mouse" THEN map ELSE GLOBAL_MOUSE_CALLBACKS
                   /\ handles' = handles (+) HandlesOf(t, {key})
                   /\ held' = [held EXCEPT ![m][t] = @ \cup {key}]
       ELSE UNCHANGED <<GLOBAL_KEYBD_CALLBACKS, GLOBAL_MOUSE_CALLBACKS, handles, held>>
    /\ UNCHANGED <<token, map_lock, cb_lock, run, crashed, monitor_vars>>

\* enable(type): nothing to do if the hook is installed; otherwise install
\* the OS hook (windows.rs hook) and, if that succeeds, register every known
\* callback and keep the handles.
Monitor_enable(m, t, answer, keys) ==
    /\ ~crashed
    /\ IF token[m][t] # INVALID
       THEN UNCHANGED <<GLOBAL_KEYBD_CALLBACKS, GLOBAL_MOUSE_CALLBACKS, handles, held,
                        token, os_hooks>>
       ELSE LET r == SetWindowsHookExW(os_hooks, t, answer)
            IN  IF r.res # "Ok"
                THEN UNCHANGED <<GLOBAL_KEYBD_CALLBACKS, GLOBAL_MOUSE_CALLBACKS, handles,
                                 held, token, os_hooks>>
                ELSE /\ map_lock[t] = "free"
                     /\ BagCardinality(handles) + Len(known[m][t]) <= MaxHandles
                     /\ keys \in VacantKeys(MapOf(t), Len(known[m][t]))
                     /\ LET map == InsertAll(MapOf(t), known[m][t], keys)
                        IN  /\ GLOBAL_KEYBD_CALLBACKS' =
                                   IF t = "Keyboard" THEN map ELSE GLOBAL_KEYBD_CALLBACKS
                            /\ GLOBAL_MOUSE_CALLBACKS' =
                                   IF t = "Mouse" THEN map ELSE GLOBAL_MOUSE_CALLBACKS
                     /\ handles' = handles (+)
                                       HandlesOf(t, {keys[i] : i \in 1..Len(known[m][t])})
                     /\ held' = [held EXCEPT ![m][t] =
                                    {keys[i] : i \in 1..Len(known[m][t])}]
                     /\ token' = [token EXCEPT ![m][t] = r.hook]
                     /\ os_hooks' = r.os
    /\ UNCHANGED <<known, map_lock, cb_lock, run, crashed, keybd_hook, mouse_hook, alive,
                   GLOBAL_KEYBD_CALLBACK, GLOBAL_MOUSE_CALLBACK, disabled, last>>

\* The map after the drop of the GlobalCallback values with the given keys.
DropAll(lock, map, keyset) ==
    IF lock = "poisoned" THEN map ELSE [k \in DOMAIN map \ keyset |-> map[k]]

\* disable(type): nothing to do if the hook is not installed; otherwise drop
\* every handle held for the type, uninstall the OS hook (windows.rs unhook)
\* and become Uninstalled, also when the uninstall fails.
Monitor_disable(m, t, osfail) ==
    /\ ~crashed
    /\ IF token[m][t] = INVALID
       THEN UNCHANGED <<GLOBAL_KEYBD_CALLBACKS, GLOBAL_MOUSE_CALLBACKS, handles, held,
                        token, os_hooks>>
       ELSE /\ map_lock[t] # "held"
            /\ LET map == DropAll(map_lock[t], MapOf(t), held[m][t])
                   r   == UnhookWindowsHookEx(os_hooks, token[m][t], osfail)
               IN  /\ GLOBAL_KEYBD_CALLBACKS' =
                          IF t = "Keyboard" THEN map ELSE GLOBAL_KEYBD_CALLBACKS
                   /\ GLOBAL_MOUSE_CALLBACKS' =
                          IF t = "Mouse" THEN map ELSE GLOBAL_MOUSE_CALLBACKS
                   /\ os_hooks' = r.os
            /\ handles' = handles (-) HandlesOf(t, held[m][t])
            /\ held' = [held EXCEPT ![m][t] = {}]
            /\ token' = [token EXCEPT ![m][t] = INVALID]
    /\ UNCHANGED <<known, map_lock, cb_lock, run, crashed, keybd_hook, mouse_hook, alive,
                   GLOBAL_KEYBD_CALLBACK, GLOBAL_MOUSE_CALLBACK, disabled, last>>

\* The maps are created empty on first use; no handle exists, no lock is held.
RegistryInit ==
    /\ GLOBAL_KEYBD_CALLBACKS = EmptyMap
    /\ GLOBAL_MOUSE_CALLBACKS = EmptyMap
    /\ handles = EmptyBag
    /\ map_lock = [t \in HidTypes |-> "free"]
    /\ cb_lock = [c \in Callbacks |-> "free"]
    /\ run = [t \in HidTypes |-> IdleRun]

\* impl Default for HidMonitor, for every monitor; the slots are None and no
\* hook is installed.
MonitorInit ==
    /\ keybd_hook = [m \in Monitors |-> INVALID]
    /\ mouse_hook = [m \in Monitors |-> INVALID]
    /\ alive = [m \in Monitors |-> TRUE]
    /\ GLOBAL_KEYBD_CALLBACK = None
    /\ GLOBAL_MOUSE_CALLBACK = None
    /\ os_hooks = [t \in HidTypes |-> INVALID]
    /\ crashed = FALSE
    /\ disabled = Nobody
    /\ last = [op |-> "init"]

\* A monitor is created with no callbacks and no hook installed.
LifecycleInit ==
    /\ known = [m \in Monitors |-> [t \in HidTypes |-> <<>>]]
    /\ token = [m \in Monitors |-> [t \in HidTypes |-> INVALID]]
    /\ held = [m \in Monitors |-> [t \in HidTypes |-> {}]]

Init == MonitorInit /\ RegistryInit /\ LifecycleInit

\* The inputs of a step that can change its outcome: the OS's answer counts
\* only where the OS does not refuse the call outright, and the result of
\* CallNextHookEx only where the call is reached.
FailChoices(h) == IF h # INVALID THEN BOOLEAN ELSE {FALSE}

NextResults(fault) == IF fault = "none" THEN LResults ELSE {0}

Next ==
    \/ \E m \in Monitors, t \in HidTypes, c \in Callbacks :
          \E answer \in InstallAnswers(t) : enable(m, t, c, answer)
    \/ \E m \in Monitors, t \in HidTypes :
          \E osfail \in FailChoices(HookOf(m, t)) : disable(m, t, osfail)
    \/ \E m \in Monitors :
          \E kfail \in FailChoices(keybd_hook[m]), mfail \in FailChoices(mouse_hook[m]) :
             Drop(m, kfail, mfail)
    \/ \E nCode \in Codes, p \in Params, fault \in Faults :
          \E next \in NextResults(fault) : KeyboardProc(nCode, p[1], p[2], fault, next)
    \/ \E nCode \in Codes, p \in Params, fault \in Faults :
          \E next \in NextResults(fault) : MouseProc(nCode, p[1], p[2], fault, next)

Spec == Init /\ [][Next]_vars

\* The key sequences the generator may draw in one GlobalCallback::new.
Draws == [1..MaxDraws -> Keys]

\* The panics that can leave a hook procedure.
Panics == Faults \ {"none"}

NextRegistry ==
    \/ \E t \in HidTypes, c \in Callbacks, draws \in Draws : GlobalCallback_new(t, c, draws)
    \/ \E h \in BagToSet(handles) : GlobalCallback_drop(h)
    \/ \E t \in HidTypes, nCode \in Codes, p \in Params, next \in LResults :
          ProcPassThrough(t, nCode, p[1], p[2], next)
    \/ \E t \in HidTypes, nCode \in Codes, p \in Params : ProcLock(t, nCode, p[1], p[2])
    \/ \E t \in HidTypes, nCode \in Codes, p \in Params, fault \in Panics :
          ProcLockPoisoned(t, nCode, p[1], p[2], fault)
    \/ \E t \in HidTypes, k \in Keys : ProcEntryLock(t, k)
    \/ \E t \in HidTypes, k \in Keys, fault \in Panics : ProcEntryPoisoned(t, k, fault)
    \/ \E t \in HidTypes, fault \in Faults : ProcCallback(t, fault)
    \/ \E t \in HidTypes, next \in LResults : ProcForward(t, next)
    \/ \E t \in HidTypes : ProcReturn(t)

SpecRegistry == Init /\ [][NextRegistry]_vars

\* The lifecycle of main.rs's HidMonitor over the registry and the hook
\* procedures of windows.rs, with callbacks that return.
NextLifecycle ==
    \/ \E m \in Monitors, t \in HidTypes, c \in Callbacks, draws \in Draws :
          add_callback(m, t, c, draws)
    \/ \E m \in Monitors, t \in HidTypes :
          \E answer \in InstallAnswers(t), keys \in [1..Len(known[m][t]) -> Keys] :
             Monitor_enable(m, t, answer, keys)
    \/ \E m \in Monitors, t \in HidTypes :
          \E osfail \in FailChoices(token[m][t]) : Monitor_disable(m, t, osfail)
    \/ \E t \in HidTypes, nCode \in Codes, p \in Params : ProcLock(t, nCode, p[1], p[2])
    \/ \E t \in HidTypes, k \in Keys : ProcEntryLock(t, k)
    \/ \E t \in HidTypes : ProcCallback(t, "none")
    \/ \E t \in HidTypes, next \in LResults : ProcForward(t, next)
    \/ \E t \in HidTypes : ProcReturn(t)

SpecLifecycle == Init /\ [][NextLifecycle]_vars

\* Every map from some of the keys to callbacks.
Maps == UNION {[S -> Callbacks] : S \in SUBSET Keys}

\* The inputs of a drop whose entry is gone: any two maps, and one
\* GlobalCallback whose key is not in the map of its type.
RemoveInit ==
    /\ MonitorInit
    /\ LifecycleInit
    /\ GLOBAL_KEYBD_CALLBACKS \in Maps
    /\ GLOBAL_MOUSE_CALLBACKS \in Maps
    /\ \E h \in [hid_type : HidTypes, key : Keys] :
          /\ h.key \notin DOMAIN MapOf(h.hid_type)
          /\ handles = SetToBag({h})
    /\ map_lock = [t \in HidTypes |-> "free"]
    /\ cb_lock = [c \in Callbacks |-> "free"]
    /\ run = [t \in HidTypes |-> IdleRun]

NextRemove == \E h \in BagToSet(handles) : GlobalCallback_drop(h)

\* impl Drop for GlobalCallback applied to those inputs.
SpecRemove == RemoveInit /\ [][NextRemove]_vars

\* ------------------------------------------------- properties of HidMonitor
\* The hook field of monitor m for a HidType after the step.
HookOfNext(m, t) == IF t = "Keyboard" THEN keybd_hook'[m] ELSE mouse_hook'[m]

\* The callback slot of a HidType after the step.
GlobalCallbackOfNext(t) ==
    IF t = "Keyboard" THEN GLOBAL_KEYBD_CALLBACK' ELSE GLOBAL_MOUSE_CALLBACK'

\* Monitor m has a valid hook handle for the type: the state "Installed".
Installed(m, t) == alive[m] /\ HookOf(m, t) # INVALID

\* The monitors whose registration a hook procedure run has called.
InvokedOwners(rec) == {rec.invoked[i].reg.owner : i \in 1..Len(rec.invoked)}

\* C1: an enable(type) that directly follows a successful enable(type) on the
\* same monitor succeeds without an OS install call and leaves the monitor's
\* hook handle and the callback slots as they are.
C1_SecondEnableIsNoOp ==
    [][(/\ last.op = "enable" /\ last.res = "Ok"
        /\ last'.op = "enable" /\ last'.m = last.m /\ last'.t = last.t)
       => (/\ last'.res = "Ok"
           /\ last'.os_install = 0
           /\ HookOfNext(last.m, last.t) = HookOf(last.m, last.t)
           /\ GLOBAL_KEYBD_CALLBACK' = GLOBAL_KEYBD_CALLBACK
           /\ GLOBAL_MOUSE_CALLBACK' = GLOBAL_MOUSE_CALLBACK)]_vars

\* C2: an enable whose OS install fails returns the OS's error and changes
\* neither a hook handle of any monitor nor a callback slot nor the hooks the
\* OS has installed.
C2_FailedEnableChangesNothing ==
    [][(last'.op = "enable" /\ last'.os_res # "Ok")
       => (/\ last'.res = last'.os_res
           /\ keybd_hook' = keybd_hook
           /\ mouse_hook' = mouse_hook
           /\ GLOBAL_KEYBD_CALLBACK' = GLOBAL_KEYBD_CALLBACK
           /\ GLOBAL_MOUSE_CALLBACK' = GLOBAL_MOUSE_CALLBACK
           /\ os_hooks' = os_hooks)]_vars

\* C2 witness: an enable was refused because another monitor has the hook of
\* the type installed and its callback in the slot.
C2_Witness ==
    /\ last.op = "enable"
    /\ last.res = "ERROR_ALREADY_INSTALLED"
    /\ \E m2 \in Monitors \ {last.m} :
          /\ Installed(m2, last.t)
          /\ GlobalCallbackOf(last.t).owner = m2

C4_BothMonitorsObserve ==
    [][(/\ last.op = "enable"
        /\ \E m2 \in Monitors \ {last.m} : Installed(m2, last.t)
        /\ last'.op = "proc" /\ last'.t = last.t /\ last'.nCode >= 0)
       => \A m \in Monitors :
             (m = last.m \/ Installed(m, last.t)) => m \in InvokedOwners(last')]_vars

\* C5: enable, disable, enable round trip: a disable whose OS call succeeds
\* returns success and leaves no registration of the monitor in the slot of
\* the type; the enable after it, when its OS call succeeds, returns success,
\* installs the hook and puts the monitor's callback in the slot.
C5_RoundTrip ==
    [][/\ (last'.op = "disable" /\ Installed(last'.m, last'.t) /\ last'.os_res = "Ok")
          => (/\ last'.res = "Ok"
              /\ GlobalCallbackOfNext(last'.t).owner # last'.m)
       /\ (/\ last.op = "disable" /\ last.res = "Ok"
           /\ last'.op = "enable" /\ last'.m = last.m /\ last'.t = last.t
           /\ last'.os_res = "Ok")
          => (/\ last'.res = "Ok"
              /\ HookOfNext(last.m, last.t) # INVALID
              /\ GlobalCallbackOfNext(last.t).owner = last.m)]_vars

\* C6: a disable(type) on a monitor whose hook for the type is invalid makes
\* no OS uninstall call, returns success and changes no hook handle.
C6_DisableUninstalledIsNoOp ==
    [][(last'.op = "disable" /\ HookOf(last'.m, last'.t) = INVALID)
       => (/\ last'.os_uninstall = 0
           /\ last'.res = "Ok"
           /\ keybd_hook' = keybd_hook
           /\ mouse_hook' = mouse_hook)]_vars

\* C7: a disable(type) on an installed monitor whose OS uninstall fails
\* returns the OS's error and still makes the monitor's hook handle invalid.
C7_FailedUninstallStillAdvances ==
    [][(last'.op = "disable" /\ Installed(last'.m, last'.t) /\ last'.os_res # "Ok")
       => (/\ last'.res = last'.os_res
           /\ HookOfNext(last'.m, last'.t) = INVALID)]_vars

\* C8: a callback's panic during dispatch does not leave the hook procedure:
\* the procedure still forwards the event with CallNextHookEx and returns its
\* result, the process lives on, and no lock is left poisoned, so that later
\* events of the type are dispatched and forwarded too.
C8_PanicIsContained ==
    /\ ~crashed
    /\ \A t \in HidTypes :
          /\ map_lock[t] # "poisoned"
          /\ run[t].pc = "done" =>
                /\ ~run[t].panicked
                /\ Len(run[t].forwarded) = 1

\* C9: every finished call of a hook procedure has called CallNextHookEx
\* exactly once, with the ncode, wparam and lparam it was called with, after
\* the dispatch to every entry was over, and has returned that call's result.
C9_ForwardsExactlyOnce ==
    \A t \in HidTypes :
        run[t].pc = "done" =>
            /\ run[t].todo = {}
            /\ Len(run[t].forwarded) = 1
            /\ run[t].forwarded[1].nCode = run[t].nCode
            /\ run[t].forwarded[1].wParam = run[t].wParam
            /\ run[t].forwarded[1].lParam = run[t].lParam
            /\ run[t].ret = run[t].forwarded[1].result

\* C10: a hook procedure called with a negative code forwards the event
\* without locking the callback state and without calling any callback.
C10_NegativeCodeFastPath ==
    (last.op = "proc" /\ last.nCode < 0) =>
        /\ ~last.locked
        /\ last.invoked = <<>>
        /\ Len(last.forwarded) = 1

\* C11: a hook procedure call with a non-negative code calls every entry that
\* is in the map of its type when the dispatch starts exactly once, with the
\* ncode, wparam and lparam of the event, and calls no callback that is not
\* in that map. (The map cannot change between the lock and the end of the
\* call, so the map at the end of the call is the map at its start.)
C11_EachEntryOnce ==
    [][\A t \in HidTypes :
          (run[t].pc # "done" /\ run'[t].pc = "done" /\ run'[t].nCode >= 0) =>
              /\ Len(run'[t].invoked) = Cardinality(DOMAIN MapOf(t))
              /\ \A k \in DOMAIN MapOf(t) :
                    \E i \in 1..Len(run'[t].invoked) : run'[t].invoked[i].key = k
              /\ \A i \in 1..Len(run'[t].invoked) :
                    /\ run'[t].invoked[i].key \in DOMAIN MapOf(t)
                    /\ run'[t].invoked[i].cb = MapOf(t)[run'[t].invoked[i].key]
                    /\ run'[t].invoked[i].nCode = run'[t].nCode
                    /\ run'[t].invoked[i].wParam = run'[t].wParam
                    /\ run'[t].invoked[i].lParam = run'[t].lParam]_vars

\* The map of a HidType after the step.
MapOfNext(t) == IF t = "Keyboard" THEN GLOBAL_KEYBD_CALLBACKS' ELSE GLOBAL_MOUSE_CALLBACKS'

\* C12: GlobalCallback::new adds exactly one entry, under a key that was not
\* in the map of the type, and changes no entry that was there (nor the other
\* map); no two GlobalCallback values of a type that exist hold the same key.
C12_InsertNeverOverwrites ==
    [][/\ \A h \in BagToSet(handles') : CopiesIn(h, handles') = 1
       /\ BagCardinality(handles') > BagCardinality(handles) =>
             \E h \in BagToSet(handles') :
                /\ handles' = handles (+) SetToBag({h})
                /\ h.key \notin DOMAIN MapOf(h.hid_type)
                /\ DOMAIN MapOfNext(h.hid_type) = DOMAIN MapOf(h.hid_type) \cup {h.key}
                /\ \A k \in DOMAIN MapOf(h.hid_type) :
                      MapOfNext(h.hid_type)[k] = MapOf(h.hid_type)[k]
                /\ \A u \in HidTypes \ {h.hid_type} : MapOfNext(u) = MapOf(u)]_vars

\* C12 witness: a GlobalCallback::new on a map that had an entry: the map of
\* a type has two entries, held by two GlobalCallback values.
C12_Witness ==
    \E t \in HidTypes :
        /\ Cardinality(DOMAIN MapOf(t)) = 2
        /\ \A k \in DOMAIN MapOf(t) : BagIn([hid_type |-> t, key |-> k], handles)
        /\ \E k1, k2 \in DOMAIN MapOf(t) : MapOf(t)[k1] # MapOf(t)[k2]

\* C13: the drop of a GlobalCallback whose key is not in the map of its type
\* (the lock not being poisoned) does not panic and leaves both maps and the
\* locks as they are.
C13_RemoveAbsentIsNoOp ==
    [][\A h \in BagToSet(handles) :
          (/\ handles' = handles (-) SetToBag({h})
           /\ h.key \notin DOMAIN MapOf(h.hid_type)
           /\ map_lock[h.hid_type] = "free") =>
              /\ ~drop(map_lock[h.hid_type], MapOf(h.hid_type), h.key).panicked
              /\ \A t \in HidTypes : MapOfNext(t) = MapOf(t)
              /\ UNCHANGED <<map_lock, cb_lock>>]_vars

\* C13 witness: the GlobalCallback whose entry was gone has been dropped,
\* and the maps have the entries of other keys.
C13_Witness ==
    /\ handles = EmptyBag
    /\ \A t \in HidTypes : DOMAIN MapOf(t) # {}

\* C14: the destructor of a HidMonitor calls the OS uninstall exactly once
\* for each type whose hook handle is valid and not at all for a type whose
\* handle is invalid, whatever the result of the other uninstall, and no
\* error leaves the destructor; a hook whose uninstall succeeded is no
\* longer installed.
C14_DropUninstallsEachValidHookOnce ==
    last.op = "drop" =>
        /\ last.res = "Ok"
        /\ last.keybd.os_uninstall = (IF last.keybd.hook # INVALID THEN 1 ELSE 0)
        /\ last.mouse.os_uninstall = (IF last.mouse.hook # INVALID THEN 1 ELSE 0)
        /\ last.mouse.os_res = "Ok" => os_hooks["Mouse"] = INVALID
        /\ last.keybd.os_res = "Ok" => os_hooks["Keyboard"] = INVALID

\* C14 witness: a monitor with both hooks installed was dropped, the
\* keyboard uninstall failed and the mouse hook was uninstalled all the same.
C14_Witness ==
    /\ last.op = "drop"
    /\ last.keybd.hook # INVALID
    /\ last.keybd.os_res = OsFailure
    /\ last.mouse.hook # INVALID
    /\ last.mouse.os_res = "Ok"

\* The keys of the entries a hook procedure call has called.
InvokedKeys(rec) == {rec.invoked[i].key : i \in 1..Len(rec.invoked)}

C15_WitnessUninstalled ==
    \E m \in Monitors, t \in HidTypes :
        /\ token[m][t] = INVALID
        /\ known[m][t] # <<>>
        /\ held[m][t] = {}
        /\ DOMAIN MapOf(t) = {}
        /\ run[t].pc = "done"
        /\ run[t].nCode >= 0
        /\ run[t].invoked = <<>>

\* C16: a hook procedure does not hold the lock of the map of its type while
\* a callback runs.
C16_LockNotHeldDuringCallback ==
    \A t \in HidTypes : run[t].pc = "callback" => map_lock[t] # "held"

\* The keys of the GlobalCallback values of a type that exist.
HandleKeys(t) == {h.key : h \in {x \in BagToSet(handles) : x.hid_type = t}}

\* C17: the keys of the map of each type are the keys of the GlobalCallback
\* values of that type that were created and not yet dropped.
C17_KeysAreLiveHandles ==
    \A t \in HidTypes : DOMAIN MapOf(t) = HandleKeys(t)

\* C18: while a hook procedure call iterates the map of its type (from its
\* lock to the end of its loop), no step changes that map or the
\* GlobalCallback values of that type: GlobalCallback::new and the drop of a
\* handle take effect before the iteration starts or after it ends.
C18_NoMutationDuringIteration ==
    [][\A t \in HidTypes :
          (run[t].pc \in {"iterate", "callback"} /\ ~crashed') =>
              /\ MapOfNext(t) = MapOf(t)
              /\ {h \in BagToSet(handles') : h.hid_type = t} =
                     {h \in BagToSet(handles) : h.hid_type = t}
              /\ CopiesIn([hid_type |-> t, key |-> run[t].cur], handles') =
                     CopiesIn([hid_type |-> t, key |-> run[t].cur], handles)]_vars

\* C18 witness: a hook procedure call has dispatched an event to the entries
\* its map had, and before it returned the map was changed by a
\* GlobalCallback::new or a drop that took effect after the iteration.
C18_Witness ==
    \E t \in HidTypes :
        /\ run[t].pc = "done"
        /\ ~run[t].panicked
        /\ run[t].invoked # <<>>
        /\ InvokedKeys(run[t]) # DOMAIN MapOf(t)
        /\ map_lock[t] = "free"

\* Every hook that is installed in the OS has its handle in the hook field
\* of a monitor that exists.
Owned ==
    \A t \in HidTypes :
        os_hooks[t] # INVALID =>
            \E m \in Monitors : alive[m] /\ HookOf(m, t) = os_hooks[t]

\* C19: in every state, every hook installed through a monitor's enable and
\* not yet uninstalled has its handle stored in a monitor's hook field of the
\* type, so that a disable or the destructor uninstalls it: no OS hook is
\* leaked.
C19_NoLeakedHook == Owned

\* The step is a destructor in which an OS uninstall failed.
FailedDrop ==
    /\ last'.op = "drop"
    /\ \/ last'.keybd.os_res \notin {"Ok", "skipped"}
       \/ last'.mouse.os_res \notin {"Ok", "skipped"}

\* C19 as amended: a successful enable never overwrites a valid handle, and
\* every step keeps each installed hook's handle in the hook field of a
\* monitor that exists, except a destructor in which the OS uninstall fails:
\* its error is discarded and the hook stays installed with no holder.
C19_LeakOnlyByFailedDrop ==
    [][/\ (last'.op = "enable" /\ last'.res = "Ok") =>
             HookOf(last'.m, last'.t) = INVALID
       /\ (Owned /\ ~FailedDrop) => Owned']_vars

\* C19 witness: a disable whose OS uninstall failed: the hook is still
\* installed and the monitor still holds its handle.
C19_Witness ==
    /\ last.op = "disable"
    /\ last.os_res = OsFailure
    /\ os_hooks[last.t] # INVALID
    /\ alive[last.m]
    /\ HookOf(last.m, last.t) = os_hooks[last.t]

\* A step of the hook procedure call of type t that is in progress.
ThreadStep(t) ==
    \/ \E k \in Keys : ProcEntryLock(t, k)
    \/ \E k \in Keys, fault \in Panics : ProcEntryPoisoned(t, k, fault)
    \/ \E fault \in Faults : ProcCallback(t, fault)
    \/ \E next \in LResults : ProcForward(t, next)

\* C20: no reachable state is a deadlock. The lock of a map is held only by
\* the hook procedure call of its type, while that call is in progress; the
\* lock of a callback is held only by a call that is running that callback,
\* and a call that runs a callback waits for nothing; so every call in
\* progress can take a step, or the call that holds the lock it waits for
\* can, and GlobalCallback::new and drop wait only for a call that can.
C20_NoDeadlock ==
    /\ \A t \in HidTypes :
          map_lock[t] = "held" => run[t].pc \in {"iterate", "callback"}
    /\ \A c \in Callbacks :
          cb_lock[c] \in HidTypes =>
             /\ run[cb_lock[c]].pc = "callback"
             /\ MapOf(cb_lock[c])[run[cb_lock[c]].cur] = c
    /\ \A t \in HidTypes :
          run[t].pc = "callback" => ENABLED ProcCallback(t, "none")
    /\ \A t \in HidTypes :
          run[t].pc \in {"iterate", "callback"} =>
             \/ ENABLED ThreadStep(t)
             \/ \E u \in HidTypes \ {t} :
                   run[u].pc = "callback" /\ ENABLED ThreadStep(u)

\* C20 witness: the keyboard and the mouse hook procedure calls are both in
\* progress, one runs a callback that is also an entry of the other's map,
\* and the other waits for that callback's lock.
C20_Witness ==
    \E t \in HidTypes, u \in HidTypes :
        /\ t # u
        /\ run[u].pc = "callback"
        /\ run[t].pc = "iterate"
        /\ run[t].todo # {}
        /\ \A k \in run[t].todo : cb_lock[MapOf(t)[k]] = u

====
